---- MODULE Spec2Model ----
(***************************************************************************)
(* Model of services/axios.js: the axios instance with its request and    *)
(* response interceptors (retry with backoff, error normalisation, session *)
(* refresh on 401) and the FileService three-phase upload.                 *)
(***************************************************************************)
EXTENDS Integers, Sequences, FiniteSets, TLC

(***************************************************************************)
(* Bounds of the model.                                                    *)
(***************************************************************************)
\* tokens the auth service can hand out are 1..MaxToken (0 = no token)
MaxToken == 2
\* session ids are 1..MaxSid (0 = no session id)
MaxSid == 1
\* Math.random() is drawn from {0/JitterDenom, ..., (JitterDenom-1)/JitterDenom}
JitterDenom == 5
\* refreshToken calls of one request are counted up to MaxCount (then "or more")
MaxCount == 2
\* number of times the caller invokes error.retry() on a surfaced error
MaxReplays == 1
\* largest retryCount handed to getRetryDelay when it is checked on its own
MaxDelayArg == 10
\* upload urls, upload ids and file records the backend answers with are 1..MaxData
MaxData == 2

(***************************************************************************)
(* RETRY_CONFIG                                                            *)
(***************************************************************************)
maxRetries == 3
initialDelayMs == 1000
maxDelayMs == 5000
backoffFactor == 2
retryableStatuses == {408, 429, 500, 502, 503, 504}
retryableErrors ==
  {"ECONNABORTED", "ETIMEDOUT", "ENOTFOUND", "ENETUNREACH", "ERR_NETWORK"}

\* the logical requests; Spec runs the ones in Active
Reqs == {1, 2}
Active == {1}

VARIABLES
  session,      \* what authService.getCurrentUser() returns now
  pc,           \* per request: where its promise chain is suspended
  retryCount,   \* per request: config.retryCount
  hdr,          \* per request: config.headers (x-auth-token, x-session-id)
  sent,         \* per request: the auth headers of the last attempt put on the wire
  origin,       \* per request: which call site dispatched the current attempt
  delayMs,      \* per request: the setTimeout delay being awaited
  result,       \* per request: what the caller's promise settled with
  attempts,     \* per request: number of axiosInstance(config) dispatches
  refreshCalls, \* per request: number of authService.refreshToken() calls
  logoutCalls,  \* per request: number of authService.logout() calls
  replays,      \* per request: number of error.retry() calls made by the caller
  lastError,    \* per request: the error the current attempt failed with
  refreshed,    \* per request: what the handler's refreshToken() call gave
  autoRetries,  \* per request: number of dispatches made by the retry branch
  delayArg,     \* getRetryDelay checked on its own: retryCount argument
  delayRand,    \* getRetryDelay checked on its own: Math.random() numerator
  delayOut,     \* getRetryDelay checked on its own: returned delay (-1 = not yet)
  upPc,         \* uploadFile: where the call is suspended
  upFile,       \* uploadFile: the file argument
  upData,       \* uploadFile: uploadData, what initializeUpload returned
  netLog,       \* uploadFile: the network operations issued and how they settled
  upResult,     \* uploadFile: the value returned
  upError,      \* uploadFile: the error raised ("" = none)
  urlFn,        \* url helpers checked on their own: the method called
  urlName,      \* url helpers: the filename argument (0 = none)
  urlPreview,   \* url helpers: the forPreview argument
  urlAuth,      \* url helpers: the withAuth argument
  urlOut        \* url helpers: what the call gave (NoUrl = not yet)

reqVars == <<pc, retryCount, hdr, sent, origin, delayMs, result, attempts,
             refreshCalls, logoutCalls, replays, lastError, refreshed,
             autoRetries>>
delayVars == <<delayArg, delayRand, delayOut>>
upVars == <<upPc, upFile, upData, netLog, upResult, upError>>
urlVars == <<urlFn, urlName, urlPreview, urlAuth, urlOut>>
vars == <<session, reqVars, delayVars, upVars, urlVars>>

(***************************************************************************)
(* Sessions and headers                                                    *)
(***************************************************************************)
Tokens == 1..MaxToken
Sids == 1..MaxSid
\* getCurrentUser() yields null (or a user without token): token = 0
NoSession == [token |-> 0, sessionId |-> 0]
AllSessions == {NoSession} \cup [token : Tokens, sessionId : {0} \cup Sids]
NoHeaders == [tok |-> 0, sid |-> 0]

Min(a, b) == IF a < b THEN a ELSE b

RECURSIVE Pow(_, _)
Pow(b, n) == IF n = 0 THEN 1 ELSE b * Pow(b, n - 1)

(***************************************************************************)
(* Transport outcomes handed to the response error handler.               *)
(* status = 0: no response; request: the request was sent.                 *)
(***************************************************************************)
Statuses == retryableStatuses \cup {400, 401, 403, 404, 418}
ErrResponse(s) ==
  [cancel |-> FALSE, status |-> s, request |-> TRUE,
   code |-> IF s < 500 THEN "ERR_BAD_REQUEST" ELSE "ERR_BAD_RESPONSE"]
ErrNoResponse(c) ==
  [cancel |-> FALSE, status |-> 0, request |-> TRUE, code |-> c]
ErrSetup(c) ==
  [cancel |-> FALSE, status |-> 0, request |-> FALSE, code |-> c]
ErrCancel ==
  [cancel |-> TRUE, status |-> 0, request |-> TRUE, code |-> "ERR_CANCELED"]
NoError ==
  [cancel |-> FALSE, status |-> 0, request |-> FALSE, code |-> "NONE"]
\* what a request of the plain axios client fails with: a status or none
FailStatuses == Statuses \cup {0}
Errors ==
  {ErrResponse(s) : s \in Statuses}
    \cup {ErrNoResponse(c) : c \in retryableErrors \cup {""}}
    \cup {ErrSetup(c) : c \in {"", "ERR_INVALID_URL"}}
    \cup {ErrCancel}

\* a handler that never recognises a cancellation
isCancel_never(error) == FALSE
\* axios.isCancel(error)
isCancel(error) == error.cancel

\* a delay without the cap
getRetryDelay_uncapped(n, rnd) ==
  (initialDelayMs * Pow(backoffFactor, n) * (10 * JitterDenom + rnd))
    \div (10 * JitterDenom)
\* getRetryDelay, with Math.random() = rnd / JitterDenom
getRetryDelay(n, rnd) ==
  Min((initialDelayMs * Pow(backoffFactor, n) * (10 * JitterDenom + rnd))
         \div (10 * JitterDenom),
      maxDelayMs)

\* a classifier that ignores the response status
isRetryableError_noStatus(error) ==
  \/ error.code # "" /\ error.code \in retryableErrors
  \/ error.status = 0 /\ error.request
isRetryableError(error) ==
  \/ error.code # "" /\ error.code \in retryableErrors
  \/ error.status # 0 /\ error.status \in retryableStatuses
  \/ error.status = 0 /\ error.request

\* a retry branch whose bound is off by one
ShouldRetry_offByOne(error, rc) == isRetryableError(error) /\ rc <= maxRetries
\* the condition of the retry branch of the response error handler
ShouldRetry(error, rc) == isRetryableError(error) /\ rc < maxRetries

\* an interceptor that clears the headers when there is no session token
AttachAuth_clears(h, user) ==
  IF user.token # 0
    THEN [tok |-> user.token,
          sid |-> IF user.sessionId # 0 THEN user.sessionId ELSE h.sid]
    ELSE NoHeaders
\* request interceptor: attach the session to the headers
AttachAuth(h, user) ==
  IF user.token # 0
    THEN [tok |-> user.token,
          sid |-> IF user.sessionId # 0 THEN user.sessionId ELSE h.sid]
    ELSE h

\* a 401 branch that replays with the headers of the failed attempt
RefreshedHeaders_stale(h, user) == h
\* 401 branch: config.headers["x-auth-token"] = user.token
RefreshedHeaders(h, user) == [h EXCEPT !.tok = user.token]

\* the message the status switch picks (a message sent by the server in
\* errorData is not modelled)
ErrorMessage(status) ==
  CASE status = 400 -> "bad request"
    [] status = 401 -> "authentication required or expired"
    [] status = 403 -> "forbidden"
    [] status = 404 -> "not found"
    [] status = 408 -> "request timed out"
    [] status = 429 -> "too many requests"
    [] status = 500 -> "server error"
    [] status \in {502, 503, 504} -> "server temporarily unavailable"
    [] OTHER -> "unexpected error"

\* the error thrown to the caller
NoResult ==
  [kind |-> "none", status |-> 0, code |-> "", isNetworkError |-> FALSE,
   message |-> ""]
OkResult ==
  [kind |-> "response", status |-> 200, code |-> "", isNetworkError |-> FALSE,
   message |-> ""]
CancelResult(error) ==
  [kind |-> "cancel", status |-> 0, code |-> error.code,
   isNetworkError |-> FALSE, message |-> "canceled"]
\* a customError that copies error.code as it is
CustomError_rawCode(error) ==
  [kind |-> "error", status |-> 0, code |-> error.code,
   isNetworkError |-> TRUE, message |-> "cannot reach the server"]
\* customError of the no-response branch
CustomError(error) ==
  [kind |-> "error", status |-> 0,
   code |-> IF error.code # "" THEN error.code ELSE "NETWORK_ERROR",
   isNetworkError |-> TRUE, message |-> "cannot reach the server"]
\* enhancedError of the status branch (code is errorData?.code, not modelled)
EnhancedError(status) ==
  [kind |-> "error", status |-> status, code |-> "", isNetworkError |-> FALSE,
   message |-> ErrorMessage(status)]

Inc(n) == IF n < MaxCount THEN n + 1 ELSE n

(***************************************************************************)
(* FileService                                                             *)
(***************************************************************************)
\* this.uploadLimit
uploadLimit == 50 * 1024 * 1024
NoFile == [present |-> FALSE, size |-> 0]
Files ==
  {NoFile} \cup
  {[present |-> TRUE, size |-> n] :
     n \in {1, uploadLimit - 1, uploadLimit, uploadLimit + 1}}
NoUploadData == [uploadUrl |-> 0, uploadId |-> 0]
NoUploadResult == [success |-> FALSE, message |-> "", data |-> 0]

\* a validation that forgets the size limit
validateFile_noSizeCheck(file) ==
  IF ~file.present
    THEN [success |-> FALSE, message |-> "no file selected", data |-> 0]
    ELSE [success |-> TRUE, message |-> "", data |-> 0]
\* a validation that rejects a file of exactly the limit
validateFile_exclusive(file) ==
  IF ~file.present
    THEN [success |-> FALSE, message |-> "no file selected", data |-> 0]
  ELSE IF file.size >= uploadLimit
    THEN [success |-> FALSE, message |-> "file size exceeded", data |-> 0]
  ELSE [success |-> TRUE, message |-> "", data |-> 0]
validateFile(file) ==
  IF ~file.present
    THEN [success |-> FALSE, message |-> "no file selected", data |-> 0]
  ELSE IF file.size > uploadLimit
    THEN [success |-> FALSE, message |-> "file size exceeded", data |-> 0]
  ELSE [success |-> TRUE, message |-> "", data |-> 0]

\* one entry of netLog: op is issued ("send") or settles ("ok" / "fail");
\* val is the url (transfer), the upload id (complete), the file record
\* (complete ok) or the status of the failure (fail; 0 = no response);
\* tok is the x-auth-token sent
Event(op, ev, val, tok) == [op |-> op, ev |-> ev, val |-> val, tok |-> tok]

\* what a url helper gives: an address (endpoint, filename, query
\* parameters in order) or a raised error
NoUrl ==
  [kind |-> "none", error |-> "", endpoint |-> "", filename |-> 0,
   params |-> <<>>]
Url(endpoint, filename, params) ==
  [kind |-> "url", error |-> "", endpoint |-> endpoint, filename |-> filename,
   params |-> params]
UrlError(e) ==
  [kind |-> "raised", error |-> e, endpoint |-> "", filename |-> 0,
   params |-> <<>>]
\* one query parameter: raw is the value handed in, enc the number of times
\* it is percent-encoded in the address (URLSearchParams encodes once,
\* encodeURIComponent once more)
Param(name, raw, enc) == [name |-> name, raw |-> raw, enc |-> enc]

getFileUrl(filename, forPreview, withAuth, user) ==
  IF filename = 0 THEN UrlError("NoFilename")
  ELSE LET endpoint == IF forPreview THEN "view" ELSE "download" IN
    IF withAuth /\ user.token # 0
      THEN Url(endpoint, filename,
               <<Param("token", user.token, 1)>> \o
                 (IF user.sessionId # 0
                    THEN <<Param("sessionId", user.sessionId, 1)>>
                    ELSE <<>>))
      ELSE Url(endpoint, filename, <<>>)

\* a preview url that asks for the token only
getPreviewUrl_tokenOnly(filename, withAuth, user) ==
  IF filename = 0 THEN UrlError("NoFileInfo")
  ELSE IF ~withAuth THEN Url("view", filename, <<>>)
  ELSE IF user.token = 0 THEN UrlError("MissingCredentials")
  ELSE Url("view", filename,
           <<Param("token", user.token, 2)>> \o
             (IF user.sessionId # 0
                THEN <<Param("sessionId", user.sessionId, 2)>>
                ELSE <<>>))
\* getPreviewUrl(file, withAuth); filename = 0: no file or no file.filename
getPreviewUrl(filename, withAuth, user) ==
  IF filename = 0 THEN UrlError("NoFileInfo")
  ELSE IF ~withAuth THEN Url("view", filename, <<>>)
  ELSE IF user.token = 0 \/ user.sessionId = 0
    THEN UrlError("MissingCredentials")
  ELSE Url("view", filename,
           <<Param("token", user.token, 2),
             Param("sessionId", user.sessionId, 2)>>)

\* dispatches of one request are counted up to MaxAttempts (then "or more")
MaxAttempts == maxRetries + 1 + MaxCount + MaxReplays
IncAttempts(n) == IF n < MaxAttempts THEN n + 1 ELSE n

(***************************************************************************)
(* Initial state: no request issued yet.                                   *)
(***************************************************************************)
InitReqs ==
  /\ pc = [r \in Reqs |-> "idle"]
  /\ retryCount = [r \in Reqs |-> 0]
  /\ hdr = [r \in Reqs |-> NoHeaders]
  /\ sent = [r \in Reqs |-> NoHeaders]
  /\ origin = [r \in Reqs |-> "none"]
  /\ delayMs = [r \in Reqs |-> 0]
  /\ result = [r \in Reqs |-> NoResult]
  /\ attempts = [r \in Reqs |-> 0]
  /\ refreshCalls = [r \in Reqs |-> 0]
  /\ logoutCalls = [r \in Reqs |-> 0]
  /\ replays = [r \in Reqs |-> 0]
  /\ lastError = [r \in Reqs |-> NoError]
  /\ refreshed = [r \in Reqs |-> "none"]
  /\ autoRetries = [r \in Reqs |-> 0]

InitDelayIdle == delayArg = 0 /\ delayRand = 0 /\ delayOut = -1

InitUpload ==
  /\ upPc = "idle"
  /\ upFile = NoFile
  /\ upData = NoUploadData
  /\ netLog = <<>>
  /\ upResult = NoUploadResult
  /\ upError = ""

InitUrlIdle ==
  /\ urlFn = "none" /\ urlName = 0 /\ urlPreview = FALSE /\ urlAuth = FALSE
  /\ urlOut = NoUrl

Init ==
  /\ session \in AllSessions
  /\ InitReqs
  /\ InitDelayIdle
  /\ InitUpload
  /\ InitUrlIdle

\* getFileUrl and getPreviewUrl on their own: the session and the arguments
\* are drawn, nothing else runs
InitUrl ==
  /\ session \in AllSessions
  /\ InitReqs
  /\ InitDelayIdle
  /\ InitUpload
  /\ urlFn \in {"getFileUrl", "getPreviewUrl"}
  /\ urlName \in 0..MaxData
  /\ urlPreview \in IF urlFn = "getFileUrl" THEN BOOLEAN ELSE {TRUE}
  /\ urlAuth \in BOOLEAN
  /\ urlOut = NoUrl

\* getRetryDelay on its own: the arguments are drawn (the jitter from the
\* closed interval, delayRand = JitterDenom being 0.1), nothing else runs
InitDelay ==
  /\ session = NoSession
  /\ InitReqs
  /\ InitUpload
  /\ InitUrlIdle
  /\ delayArg \in 0..MaxDelayArg
  /\ delayRand \in 0..JitterDenom
  /\ delayOut = -1

(***************************************************************************)
(* The auth service's state changes outside this module (login, logout,    *)
(* a refresh started by another request).                                  *)
(***************************************************************************)
SessionChange ==
  /\ \E s \in AllSessions \ {session} : session' = s
  /\ UNCHANGED <<reqVars, delayVars, urlVars, upVars>>

(***************************************************************************)
(* axiosInstance(config): the caller issues the request.                   *)
(***************************************************************************)
Call(r) ==
  /\ pc[r] = "idle"
  /\ pc' = [pc EXCEPT ![r] = "reqint"]
  /\ origin' = [origin EXCEPT ![r] = "call"]
  /\ attempts' = [attempts EXCEPT ![r] = 1]
  /\ UNCHANGED <<autoRetries, session, retryCount, hdr, sent, delayMs, result,
                 refreshCalls, logoutCalls, replays, lastError, refreshed,
                 delayVars, urlVars, upVars>>

\* request interceptor, then the adapter puts the attempt on the wire
RequestInterceptor(r) ==
  /\ pc[r] = "reqint"
  /\ hdr' = [hdr EXCEPT ![r] = AttachAuth(hdr[r], session)]
  /\ sent' = [sent EXCEPT ![r] = hdr'[r]]
  /\ pc' = [pc EXCEPT ![r] = "inflight"]
  /\ UNCHANGED <<autoRetries, session, retryCount, origin, delayMs, result, attempts,
                 refreshCalls, logoutCalls, replays, lastError, refreshed,
                 delayVars, urlVars, upVars>>

\* response interceptor, success handler
ResponseSuccess(r) ==
  /\ pc[r] = "inflight"
  /\ pc' = [pc EXCEPT ![r] = "success"]
  /\ result' = [result EXCEPT ![r] = OkResult]
  /\ UNCHANGED <<autoRetries, session, retryCount, hdr, sent, origin, delayMs, attempts,
                 refreshCalls, logoutCalls, replays, lastError, refreshed,
                 delayVars, urlVars, upVars>>

\* response interceptor, error handler, up to its first await or its throw,
\* run on one of the errors errs
HandleError(r, errs) ==
  /\ pc[r] = "inflight"
  /\ \E error \in errs, rnd \in 0..(JitterDenom - 1) :
       /\ lastError' = [lastError EXCEPT ![r] = error]
       /\ refreshed' = [refreshed EXCEPT ![r] = "none"]
       /\ IF isCancel(error)
            THEN /\ pc' = [pc EXCEPT ![r] = "failed"]
                 /\ result' = [result EXCEPT ![r] = CancelResult(error)]
                 /\ UNCHANGED <<retryCount, delayMs, refreshCalls>>
          ELSE IF ShouldRetry(error, retryCount[r])
            THEN /\ retryCount' = [retryCount EXCEPT ![r] = @ + 1]
                 /\ delayMs' = [delayMs EXCEPT ![r] = getRetryDelay(retryCount'[r], rnd)]
                 /\ pc' = [pc EXCEPT ![r] = "delay"]
                 /\ UNCHANGED <<result, refreshCalls>>
          ELSE IF error.status = 0
            THEN /\ pc' = [pc EXCEPT ![r] = "failed"]
                 /\ result' = [result EXCEPT ![r] = CustomError(error)]
                 /\ UNCHANGED <<retryCount, delayMs, refreshCalls>>
          ELSE IF error.status = 401
            THEN /\ pc' = [pc EXCEPT ![r] = "refresh"]
                 /\ refreshCalls' = [refreshCalls EXCEPT ![r] = Inc(@)]
                 /\ UNCHANGED <<retryCount, delayMs, result>>
          ELSE /\ pc' = [pc EXCEPT ![r] = "failed"]
               /\ result' = [result EXCEPT ![r] = EnhancedError(error.status)]
               /\ UNCHANGED <<retryCount, delayMs, refreshCalls>>
  /\ UNCHANGED <<autoRetries, session, hdr, sent, origin, attempts, logoutCalls, replays,
                 delayVars, urlVars, upVars>>

\* the handler run on whatever the transport can fail with
ResponseError(r) == HandleError(r, Errors)

\* the handler run on one failure of each kind
ReplayErrors ==
  {ErrResponse(503), ErrResponse(401), ErrResponse(404),
   ErrNoResponse("ECONNABORTED"), ErrCancel}
ResponseErrorReplay(r) == HandleError(r, ReplayErrors)

\* the handler run on a 401 answer
ResponseError401(r) == HandleError(r, {ErrResponse(401)})

\* a retry timer that also fires while the attempt is still in flight
RetryDispatch_whileInFlight(r) ==
  /\ pc[r] \in {"delay", "inflight"}
  /\ pc' = [pc EXCEPT ![r] = "reqint"]
  /\ origin' = [origin EXCEPT ![r] = "retry"]
  /\ delayMs' = [delayMs EXCEPT ![r] = 0]
  /\ attempts' = [attempts EXCEPT ![r] = IncAttempts(@)]
  /\ lastError' = [lastError EXCEPT ![r] = NoError]
  /\ autoRetries' = [autoRetries EXCEPT ![r] = @ + 1]
  /\ UNCHANGED <<session, retryCount, hdr, sent, result, refreshCalls,
                 logoutCalls, replays, refreshed, delayVars, urlVars, upVars>>
\* retry branch after the setTimeout: axiosInstance(config)
RetryDispatch(r) ==
  /\ pc[r] = "delay"
  /\ pc' = [pc EXCEPT ![r] = "reqint"]
  /\ origin' = [origin EXCEPT ![r] = "retry"]
  /\ delayMs' = [delayMs EXCEPT ![r] = 0]
  /\ attempts' = [attempts EXCEPT ![r] = IncAttempts(@)]
  /\ lastError' = [lastError EXCEPT ![r] = NoError]
  /\ autoRetries' = [autoRetries EXCEPT ![r] = @ + 1]
  /\ UNCHANGED <<session, retryCount, hdr, sent, result, refreshCalls,
                 logoutCalls, replays, refreshed, delayVars, urlVars, upVars>>

\* a 401 branch that does not log out when its refresh raised while another
\* request's refresh has succeeded
RefreshReturn_sharedOutcome(r) ==
  /\ pc[r] = "refresh"
  /\ \E outcome \in {"true", "false", "raise"} :
       /\ refreshed' = [refreshed EXCEPT ![r] = outcome]
       /\ IF outcome = "true" /\ session.token # 0
            THEN /\ hdr' = [hdr EXCEPT ![r] = RefreshedHeaders(hdr[r], session)]
                 /\ pc' = [pc EXCEPT ![r] = "reqint"]
                 /\ origin' = [origin EXCEPT ![r] = "refresh"]
                 /\ attempts' = [attempts EXCEPT ![r] = IncAttempts(@)]
                 /\ lastError' = [lastError EXCEPT ![r] = NoError]
                 /\ UNCHANGED <<session, result, logoutCalls>>
          ELSE IF outcome = "raise"
                  /\ ~\E q \in Reqs \ {r} : refreshed[q] = "true"
            THEN /\ session' = NoSession
                 /\ logoutCalls' = [logoutCalls EXCEPT ![r] = @ + 1]
                 /\ pc' = [pc EXCEPT ![r] = "failed"]
                 /\ result' = [result EXCEPT ![r] = EnhancedError(401)]
                 /\ UNCHANGED <<hdr, origin, attempts, lastError>>
          ELSE /\ pc' = [pc EXCEPT ![r] = "failed"]
               /\ result' = [result EXCEPT ![r] = EnhancedError(401)]
               /\ UNCHANGED <<session, hdr, origin, attempts, logoutCalls,
                              lastError>>
  /\ UNCHANGED <<autoRetries, retryCount, sent, delayMs, refreshCalls, replays, delayVars, urlVars,
                 upVars>>
\* 401 branch after the await of authService.refreshToken()
RefreshReturn(r) ==
  /\ pc[r] = "refresh"
  /\ \E outcome \in {"true", "false", "raise"} :
       /\ refreshed' = [refreshed EXCEPT ![r] = outcome]
       /\ IF outcome = "true" /\ session.token # 0
            THEN /\ hdr' = [hdr EXCEPT ![r] = RefreshedHeaders(hdr[r], session)]
                 /\ pc' = [pc EXCEPT ![r] = "reqint"]
                 /\ origin' = [origin EXCEPT ![r] = "refresh"]
                 /\ attempts' = [attempts EXCEPT ![r] = IncAttempts(@)]
                 /\ lastError' = [lastError EXCEPT ![r] = NoError]
                 /\ UNCHANGED <<session, result, logoutCalls>>
          ELSE IF outcome = "raise"
            THEN /\ session' = NoSession
                 /\ logoutCalls' = [logoutCalls EXCEPT ![r] = @ + 1]
                 /\ pc' = [pc EXCEPT ![r] = "failed"]
                 /\ result' = [result EXCEPT ![r] = EnhancedError(401)]
                 /\ UNCHANGED <<hdr, origin, attempts, lastError>>
          ELSE /\ pc' = [pc EXCEPT ![r] = "failed"]
               /\ result' = [result EXCEPT ![r] = EnhancedError(401)]
               /\ UNCHANGED <<session, hdr, origin, attempts, logoutCalls,
                              lastError>>
  /\ UNCHANGED <<autoRetries, retryCount, sent, delayMs, refreshCalls, replays, delayVars, urlVars,
                 upVars>>

\* a replay that starts from a fresh config
ManualRetry_resetsCount(r) ==
  /\ pc[r] = "failed"
  /\ result[r].kind = "error"
  /\ replays[r] < MaxReplays
  /\ replays' = [replays EXCEPT ![r] = @ + 1]
  /\ pc' = [pc EXCEPT ![r] = "reqint"]
  /\ origin' = [origin EXCEPT ![r] = "manual"]
  /\ result' = [result EXCEPT ![r] = NoResult]
  /\ attempts' = [attempts EXCEPT ![r] = IncAttempts(@)]
  /\ lastError' = [lastError EXCEPT ![r] = NoError]
  /\ refreshed' = [refreshed EXCEPT ![r] = "none"]
  /\ retryCount' = [retryCount EXCEPT ![r] = 0]
  /\ UNCHANGED <<autoRetries, session, hdr, sent, delayMs, refreshCalls,
                 logoutCalls, delayVars, urlVars, upVars>>
\* the caller invokes error.retry() of a surfaced customError / enhancedError
ManualRetry(r) ==
  /\ pc[r] = "failed"
  /\ result[r].kind = "error"
  /\ replays[r] < MaxReplays
  /\ replays' = [replays EXCEPT ![r] = @ + 1]
  /\ pc' = [pc EXCEPT ![r] = "reqint"]
  /\ origin' = [origin EXCEPT ![r] = "manual"]
  /\ result' = [result EXCEPT ![r] = NoResult]
  /\ attempts' = [attempts EXCEPT ![r] = IncAttempts(@)]
  /\ lastError' = [lastError EXCEPT ![r] = NoError]
  /\ refreshed' = [refreshed EXCEPT ![r] = "none"]
  /\ UNCHANGED <<autoRetries, session, retryCount, hdr, sent, delayMs, refreshCalls,
                 logoutCalls, delayVars, urlVars, upVars>>

(***************************************************************************)
(* getRetryDelay applied to the drawn arguments                            *)
(***************************************************************************)
ComputeDelay ==
  /\ delayOut = -1
  /\ delayOut' = getRetryDelay(delayArg, delayRand)
  /\ UNCHANGED <<session, reqVars, delayArg, delayRand, upVars, urlVars>>

(***************************************************************************)
(* FileService.uploadFile(file, onProgress)                                *)
(***************************************************************************)
\* the call, up to the return of the validation result or the await of it
UploadCall ==
  /\ upPc = "idle"
  /\ \E file \in Files :
       /\ upFile' = file
       /\ IF ~validateFile(file).success
            THEN /\ upPc' = "returned"
                 /\ upResult' = validateFile(file)
            ELSE /\ upPc' = "validated"
                 /\ UNCHANGED upResult
  /\ UNCHANGED <<session, reqVars, delayVars, urlVars, upData, netLog, upError>>

\* initializeUpload up to its axios.post
InitializeUpload ==
  /\ upPc = "validated"
  /\ IF session.token = 0
       THEN /\ upPc' = "raised"
            /\ upError' = "MissingCredentials"
            /\ UNCHANGED netLog
       ELSE /\ upPc' = "init"
            /\ netLog' = Append(netLog, Event("init", "send", 0, session.token))
            /\ UNCHANGED upError
  /\ UNCHANGED <<session, reqVars, delayVars, urlVars, upFile, upData, upResult>>

\* an init that is sent again once after it failed
InitSettles_retrying ==
  /\ upPc = "init"
  /\ \/ \E url \in 1..MaxData, id \in 1..MaxData :
          /\ upData' = [uploadUrl |-> url, uploadId |-> id]
          /\ netLog' = netLog \o <<Event("init", "ok", 0, 0),
                                    Event("transfer", "send", url, 0)>>
          /\ upPc' = "transfer"
          /\ UNCHANGED upError
     \/ /\ Len(netLog) < 2
        /\ \E st \in FailStatuses :
             netLog' = netLog \o <<Event("init", "fail", st, 0),
                                    Event("init", "send", 0, netLog[1].tok)>>
        /\ UNCHANGED <<upPc, upError, upData>>
     \/ /\ Len(netLog) >= 2
        /\ \E st \in FailStatuses :
             netLog' = Append(netLog, Event("init", "fail", st, 0))
        /\ upPc' = "raised"
        /\ upError' = "RequestFailed"
        /\ UNCHANGED upData
  /\ UNCHANGED <<session, reqVars, delayVars, urlVars, upFile, upResult>>
\* POST /upload/init answered; uploadToS3 up to its axios.put
InitSettles ==
  /\ upPc = "init"
  /\ \/ \E url \in 1..MaxData, id \in 1..MaxData :
          /\ upData' = [uploadUrl |-> url, uploadId |-> id]
          /\ netLog' = netLog \o <<Event("init", "ok", 0, 0),
                                    Event("transfer", "send", url, 0)>>
          /\ upPc' = "transfer"
          /\ UNCHANGED upError
     \/ /\ \E st \in FailStatuses :
             netLog' = Append(netLog, Event("init", "fail", st, 0))
        /\ upPc' = "raised"
        /\ upError' = "RequestFailed"
        /\ UNCHANGED upData
  /\ UNCHANGED <<session, reqVars, delayVars, urlVars, upFile, upResult>>

\* a complete that reuses the token read at init
TransferSettles_initToken ==
  /\ upPc = "transfer"
  /\ \/ IF netLog[1].tok = 0
          THEN /\ netLog' = Append(netLog, Event("transfer", "ok", 0, 0))
               /\ upPc' = "raised"
               /\ upError' = "MissingCredentials"
          ELSE /\ netLog' = netLog \o
                     <<Event("transfer", "ok", 0, 0),
                       Event("complete", "send", upData.uploadId, netLog[1].tok)>>
               /\ upPc' = "complete"
               /\ UNCHANGED upError
     \/ /\ \E st \in FailStatuses :
             netLog' = Append(netLog, Event("transfer", "fail", st, 0))
        /\ upPc' = "raised"
        /\ upError' = "RequestFailed"
  /\ UNCHANGED <<session, reqVars, delayVars, urlVars, upFile, upData, upResult>>
\* PUT uploadUrl answered; completeUpload up to its axios.post
TransferSettles ==
  /\ upPc = "transfer"
  /\ \/ IF session.token = 0
          THEN /\ netLog' = Append(netLog, Event("transfer", "ok", 0, 0))
               /\ upPc' = "raised"
               /\ upError' = "MissingCredentials"
          ELSE /\ netLog' = netLog \o
                     <<Event("transfer", "ok", 0, 0),
                       Event("complete", "send", upData.uploadId, session.token)>>
               /\ upPc' = "complete"
               /\ UNCHANGED upError
     \/ /\ \E st \in FailStatuses :
             netLog' = Append(netLog, Event("transfer", "fail", st, 0))
        /\ upPc' = "raised"
        /\ upError' = "RequestFailed"
  /\ UNCHANGED <<session, reqVars, delayVars, urlVars, upFile, upData, upResult>>

\* POST /upload/complete/{uploadId} answered; uploadFile returns
CompleteSettles ==
  /\ upPc = "complete"
  /\ \/ \E rec \in 1..MaxData :
          /\ netLog' = Append(netLog, Event("complete", "ok", rec, 0))
          /\ upPc' = "returned"
          /\ upResult' = [success |-> TRUE, message |-> "", data |-> rec]
          /\ UNCHANGED upError
     \/ /\ \E st \in FailStatuses :
             netLog' = Append(netLog, Event("complete", "fail", st, 0))
        /\ upPc' = "raised"
        /\ upError' = "RequestFailed"
        /\ UNCHANGED upResult
  /\ UNCHANGED <<session, reqVars, delayVars, urlVars, upFile, upData>>

UploadNext ==
  \/ UploadCall
  \/ InitializeUpload
  \/ InitSettles
  \/ TransferSettles
  \/ CompleteSettles

NextUpload == SessionChange \/ UploadNext
SpecUpload == Init /\ [][NextUpload]_vars

SpecDelay == InitDelay /\ [][ComputeDelay]_vars

(***************************************************************************)
(* getFileUrl / getPreviewUrl applied to the drawn arguments               *)
(***************************************************************************)
GetFileUrl ==
  /\ urlFn = "getFileUrl" /\ urlOut = NoUrl
  /\ urlOut' = getFileUrl(urlName, urlPreview, urlAuth, session)
  /\ UNCHANGED <<session, reqVars, delayVars, upVars, urlFn, urlName,
                 urlPreview, urlAuth>>

GetPreviewUrl ==
  /\ urlFn = "getPreviewUrl" /\ urlOut = NoUrl
  /\ urlOut' = getPreviewUrl(urlName, urlAuth, session)
  /\ UNCHANGED <<session, reqVars, delayVars, upVars, urlFn, urlName,
                 urlPreview, urlAuth>>

NextUrl == GetFileUrl \/ GetPreviewUrl
SpecUrl == InitUrl /\ [][NextUrl]_vars

Progress(r) ==
  \/ RequestInterceptor(r)
  \/ ResponseSuccess(r)
  \/ ResponseError(r)
  \/ RetryDispatch(r)
  \/ RefreshReturn(r)

\* one call of the instance, from the caller's call to the settled promise
Next ==
  \/ SessionChange
  \/ \E r \in Active : Call(r)
  \/ \E r \in Active : Progress(r)

Spec == Init /\ [][Next]_vars

\* the same with a caller that replays surfaced errors through error.retry(),
\* against a backend whose failures are one of each kind the handler tells
\* apart: a retryable status, a 401, another status, no response, a cancel
NextReplay ==
  \/ SessionChange
  \/ \E r \in Active : Call(r)
  \/ \E r \in Active :
       \/ RequestInterceptor(r)
       \/ ResponseSuccess(r)
       \/ ResponseErrorReplay(r)
       \/ RetryDispatch(r)
       \/ RefreshReturn(r)
  \/ \E r \in Active : ManualRetry(r)

SpecReplay == Init /\ [][NextReplay]_vars

\* two requests issued concurrently against a backend that answers 200 or
\* 401; the session changes only through the handlers' own logout
NextConc ==
  \E r \in Reqs :
    \/ Call(r)
    \/ RequestInterceptor(r)
    \/ ResponseSuccess(r)
    \/ ResponseError401(r)
    \/ RefreshReturn(r)

SpecConc == Init /\ [][NextConc]_vars

\* Scheduling: a pending microtask runs, the backoff timer fires, every
\* attempt settles (the instance has a 30 s timeout) and refreshToken returns.
LiveSpec == Spec /\ \A r \in Active : WF_vars(Progress(r))

TypeOK ==
  /\ session \in AllSessions
  /\ pc \in [Reqs -> {"idle", "reqint", "inflight", "delay", "refresh",
                      "success", "failed"}]
  /\ retryCount \in [Reqs -> 0..maxRetries]
  /\ hdr \in [Reqs -> [tok : 0..MaxToken, sid : 0..MaxSid]]
  /\ sent \in [Reqs -> [tok : 0..MaxToken, sid : 0..MaxSid]]
  /\ attempts \in [Reqs -> Nat]

(***************************************************************************)
(* Properties of the request dispatcher (specification Spec)               *)
(***************************************************************************)
NonRetryableStatuses == {400, 401, 403, 404}

\* C1: every retryable failure met with retryCount < maxRetries costs exactly
\* one retryCount increment and exactly one re-dispatch (so, before any
\* session refresh or manual replay, the dispatches are retryCount + 1, the
\* one still waiting for its backoff timer not counted); a request only
\* fails on a retryable error once retryCount = maxRetries, that is after
\* maxRetries + 1 dispatches.
C1_RetryExactlyOnce ==
  \A r \in Reqs :
    /\ retryCount[r] <= maxRetries
    /\ pc[r] = "delay" => retryCount[r] >= 1 /\ isRetryableError(lastError[r])
    /\ (pc[r] # "idle" /\ refreshCalls[r] = 0 /\ replays[r] = 0)
         => attempts[r] = retryCount[r] + (IF pc[r] = "delay" THEN 0 ELSE 1)
    /\ (pc[r] = "failed" /\ result[r].kind = "error"
          /\ isRetryableError(lastError[r]))
         => /\ retryCount[r] = maxRetries
            /\ (refreshCalls[r] = 0 /\ replays[r] = 0)
                 => attempts[r] = maxRetries + 1
C1_Witness ==
  /\ pc[1] = "failed" /\ result[1].kind = "error"
  /\ lastError[1].status = 503
  /\ refreshCalls[1] = 0 /\ replays[1] = 0
  /\ retryCount[1] = 3 /\ attempts[1] = 4

\* C2 (as claimed): within one call of a request refreshToken is invoked at
\* most once, and once it has been invoked the request never waits in the
\* retry loop again.
C2_AtMostOneRefresh ==
  \A r \in Reqs :
    replays[r] = 0 =>
      /\ refreshCalls[r] <= 1
      /\ refreshCalls[r] >= 1 => pc[r] # "delay"

\* C3: a 401 handler whose refreshToken returned true while a session token
\* is available dispatches exactly one attempt, whose x-auth-token is the
\* refreshed session token; the attempt put on the wire carries the session
\* token current at that moment or else that refreshed token, and its
\* success is the caller's result.
C3_ReplayWithRefreshedToken ==
  [][\A r \in Reqs :
       /\ (pc[r] = "refresh" /\ pc'[r] # "refresh"
             /\ refreshed'[r] = "true" /\ session.token # 0)
            => /\ pc'[r] = "reqint"
               /\ origin'[r] = "refresh"
               /\ attempts[r] < MaxAttempts => attempts'[r] = attempts[r] + 1
               /\ hdr'[r].tok = session.token
               /\ result'[r].kind = "none"
       /\ (pc[r] = "reqint" /\ origin[r] = "refresh" /\ pc'[r] = "inflight")
            => /\ sent'[r].tok # 0
               /\ sent'[r].tok = IF session.token # 0 THEN session.token
                                                       ELSE hdr[r].tok
               /\ attempts'[r] = attempts[r]
       /\ (pc[r] = "inflight" /\ origin[r] = "refresh" /\ pc'[r] = "success")
            => result'[r] = OkResult /\ attempts'[r] = attempts[r]
    ]_vars
C3_Witness ==
  /\ pc[1] = "success" /\ origin[1] = "refresh" /\ refreshed[1] = "true"
  /\ refreshCalls[1] = 1 /\ attempts[1] = 2
  /\ sent[1].tok = 2 /\ result[1] = OkResult

\* C4 (as claimed): when the recovery of a 401 fails (refreshToken raises,
\* returns false, or no session token is available after it), logout is
\* invoked, nothing is dispatched and the 401 error is surfaced.
C4_RecoveryFailureLogsOut ==
  [][\A r \in Reqs :
       (pc[r] = "refresh" /\ pc'[r] # "refresh"
          /\ (refreshed'[r] \in {"false", "raise"} \/ session.token = 0))
         => /\ logoutCalls'[r] = logoutCalls[r] + 1
            /\ attempts'[r] = attempts[r]
            /\ pc'[r] = "failed"
            /\ result'[r].kind = "error" /\ result'[r].status = 401
    ]_vars

\* C5: a failure with status 408, 429, 500, 502, 503 or 504 met with
\* retryCount < maxRetries goes to the retry loop and is re-dispatched;
\* a failure with status 400, 401, 403 or 404 never goes to the retry loop.
C5_RetryByStatus ==
  [][\A r \in Reqs :
       /\ (pc[r] = "inflight" /\ pc'[r] \notin {"inflight", "success"})
            => /\ (lastError'[r].status \in {408, 429, 500, 502, 503, 504}
                     /\ retryCount[r] < 3)
                    => pc'[r] = "delay" /\ retryCount'[r] = retryCount[r] + 1
               /\ lastError'[r].status \in NonRetryableStatuses
                    => /\ pc'[r] # "delay"
                       /\ retryCount'[r] = retryCount[r]
                       /\ attempts'[r] = attempts[r]
       /\ (pc[r] = "delay" /\ pc'[r] # "delay")
            => /\ pc'[r] = "reqint" /\ origin'[r] = "retry"
               /\ attempts[r] < MaxAttempts => attempts'[r] = attempts[r] + 1
    ]_vars
C5_Witness ==
  /\ pc[1] = "failed" /\ lastError[1].status = 403 /\ result[1].status = 403
  /\ retryCount[1] = 2 /\ attempts[1] = 3 /\ refreshCalls[1] = 0

\* C9 (as claimed): every issued request eventually reaches Success or
\* Failed.
C9_EventuallyTerminal ==
  \A r \in Reqs : (pc[r] # "idle") ~> (pc[r] \in {"success", "failed"})

\* C10: a handler run on a cancellation surfaces that cancellation at once:
\* no retry, no dispatch, no refreshToken, no logout, whatever retryCount
\* is; and the request stays failed.
C10_CancelIsTerminal ==
  [][\A r \in Reqs :
       /\ (pc[r] = "inflight" /\ pc'[r] \notin {"inflight", "success"}
             /\ lastError'[r].cancel)
            => /\ pc'[r] = "failed"
               /\ result'[r].kind = "cancel"
               /\ result'[r].code = lastError'[r].code
               /\ retryCount'[r] = retryCount[r]
               /\ attempts'[r] = attempts[r]
               /\ refreshCalls'[r] = refreshCalls[r]
               /\ logoutCalls'[r] = logoutCalls[r]
               /\ session' = session
       /\ (pc[r] = "failed" /\ result[r].kind = "cancel")
            => /\ pc'[r] = "failed" /\ result'[r] = result[r]
               /\ attempts'[r] = attempts[r]
               /\ refreshCalls'[r] = refreshCalls[r]
               /\ logoutCalls'[r] = logoutCalls[r]
    ]_vars
C10_Witness ==
  /\ pc[1] = "failed" /\ result[1].kind = "cancel" /\ lastError[1].cancel
  /\ retryCount[1] = 2 /\ attempts[1] = 3
  /\ refreshCalls[1] = 0 /\ logoutCalls[1] = 0

(***************************************************************************)
(* Properties of getRetryDelay (specification SpecDelay)                   *)
(***************************************************************************)
\* C6 (as claimed): initialDelayMs * backoffFactor^n <= getRetryDelay(n)
\* <= maxDelayMs for every n >= 0 and every jitter.
C6_DelayBoundedBothSides ==
  delayOut # -1 =>
    /\ initialDelayMs * Pow(backoffFactor, delayArg) <= delayOut
    /\ delayOut <= maxDelayMs

\* C6 (amended): min(maxDelayMs, initialDelayMs * backoffFactor^n)
\* <= getRetryDelay(n) <= maxDelayMs for every n >= 0 and every jitter.
C6_DelayBoundedByCap ==
  delayOut # -1 =>
    /\ Min(maxDelayMs, initialDelayMs * Pow(backoffFactor, delayArg)) <= delayOut
    /\ delayOut <= maxDelayMs
C6_Witness ==
  delayArg = 3 /\ delayRand = 1 /\ delayOut = maxDelayMs

(***************************************************************************)
(* Properties of uploadFile (specification SpecUpload)                     *)
(***************************************************************************)
Ops(log) == [i \in 1..Len(log) |-> <<log[i].op, log[i].ev>>]
FullUpload ==
  << <<"init", "send">>, <<"init", "ok">>, <<"transfer", "send">>,
     <<"transfer", "ok">>, <<"complete", "send">>, <<"complete", "ok">> >>
IsPrefix(s, t) == Len(s) <= Len(t) /\ s = SubSeq(t, 1, Len(s))
ValidFile == upFile.present /\ upFile.size <= 52428800
Failed(log) == \E i \in 1..Len(log) : log[i].ev = "fail"

\* C7: for a present file of at most 50 MiB, the operations are issued one
\* at a time in the order init, transfer, complete, each after the previous
\* one succeeded; when none fails and the session is there at init and at
\* complete, uploadFile returns {success: true, data: fileRecord} after
\* exactly these three, the transfer going to the uploadUrl and the complete
\* naming the uploadId that init returned.
C7_ThreeOperationsInOrder ==
  (upPc # "idle" /\ ValidFile) =>
    /\ \/ IsPrefix(Ops(netLog), FullUpload)
       \/ /\ Failed(netLog)
          /\ IsPrefix(Ops(SubSeq(netLog, 1, Len(netLog) - 1)), FullUpload)
          /\ netLog[Len(netLog)].op = netLog[Len(netLog) - 1].op
          /\ netLog[Len(netLog) - 1].ev = "send"
    /\ Len(netLog) >= 3 => netLog[3].val = upData.uploadUrl
    /\ Len(netLog) >= 5 => netLog[5].val = upData.uploadId
    /\ (upPc \in {"returned", "raised"} /\ ~Failed(netLog)
          /\ upError # "MissingCredentials")
         => /\ upPc = "returned"
            /\ Ops(netLog) = FullUpload
            /\ upResult = [success |-> TRUE, message |-> "",
                           data |-> netLog[6].val]
    /\ upPc = "returned" => upResult.success /\ Ops(netLog) = FullUpload
C7_Witness ==
  /\ upPc = "returned" /\ upFile.present /\ upFile.size = 52428800
  /\ upResult.success /\ upResult.data = 2
  /\ Len(netLog) = 6 /\ netLog[3].val = 2 /\ netLog[5].val = 1

\* C8: for a missing file or a file of more than 50 MiB, uploadFile issues
\* no network operation, raises nothing and returns success = false with a
\* message, with or without a session.
C8_InvalidFileNoNetwork ==
  (upPc # "idle" /\ (~upFile.present \/ upFile.size > 52428800)) =>
    /\ netLog = <<>>
    /\ upPc = "returned"
    /\ upError = ""
    /\ upResult.success = FALSE
    /\ upResult.message # ""
C8_Witness ==
  /\ upPc = "returned" /\ upFile.present /\ upFile.size = 52428801
  /\ session.token = 0
  /\ ~upResult.success /\ upResult.message = "file size exceeded"
  /\ netLog = <<>>
\* C11 (as claimed): a retryable failure (status 408, 429, 500, 502, 503,
\* 504 or no response) of the init or the complete request is retried:
\* uploadFile fails on it only after maxRetries + 1 sends of that request.
Sends(log, op) ==
  Cardinality({i \in 1..Len(log) : log[i].op = op /\ log[i].ev = "send"})
C11_UploadRequestsRetried ==
  (upPc = "raised" /\ Len(netLog) > 0) =>
    LET last == netLog[Len(netLog)] IN
      (last.ev = "fail" /\ last.op \in {"init", "complete"}
         /\ (last.val = 0 \/ last.val \in retryableStatuses))
        => Sends(netLog, last.op) = maxRetries + 1

\* C12: for a present file of at most 50 MiB, a failure at any phase
\* (no session at init or at complete, a failed init, transfer or complete
\* request) ends uploadFile with a raised error and no returned value; a
\* returned value always has success = true; and the failed operation is the
\* last one issued (nothing after a failed init, no complete after a failed
\* transfer).
C12_FailuresAreRaised ==
  (upPc # "idle" /\ ValidFile) =>
    /\ (Failed(netLog) \/ upError # "")
         => /\ upPc = "raised"
            /\ upResult = NoUploadResult
            /\ upError \in {"MissingCredentials", "RequestFailed"}
    /\ upPc = "raised" => upError # "" /\ upResult = NoUploadResult
    /\ upPc = "returned" => upResult.success /\ upError = "" /\ ~Failed(netLog)
    /\ \A i \in 1..Len(netLog) :
         netLog[i].ev = "fail"
           => /\ i = Len(netLog)
              /\ upError = "RequestFailed"
              /\ netLog[i].op = "init" => Len(netLog) = 2
              /\ netLog[i].op = "transfer" => Sends(netLog, "complete") = 0
    /\ (upError = "MissingCredentials" /\ Len(netLog) < 4) => netLog = <<>>
C12_Witness ==
  /\ upPc = "raised" /\ upError = "RequestFailed" /\ ValidFile
  /\ Len(netLog) = 4 /\ netLog[4].op = "transfer" /\ netLog[4].ev = "fail"
  /\ netLog[4].val = 0 /\ upResult = NoUploadResult

\* C20: when the transfer has succeeded, completeUpload reads the session
\* again: with no session token uploadFile raises MissingCredentials and
\* no complete request is issued (the transfer has been performed);
\* otherwise the complete request carries the session token of that moment,
\* whatever token init was sent with.
C20_CredentialsReadAtEachPhase ==
  [][(upPc = "transfer" /\ upPc' # "transfer"
        /\ netLog'[Len(netLog) + 1].ev = "ok")
       => /\ netLog'[Len(netLog) + 1].op = "transfer"
          /\ IF session.token = 0
               THEN /\ upPc' = "raised"
                    /\ upError' = "MissingCredentials"
                    /\ Len(netLog') = 4
                    /\ Sends(netLog', "complete") = 0
               ELSE /\ upPc' = "complete"
                    /\ upError' = ""
                    /\ netLog'[5].op = "complete" /\ netLog'[5].ev = "send"
                    /\ netLog'[5].tok = session.token
    ]_vars
C20_Witness ==
  /\ upPc = "raised" /\ upError = "MissingCredentials"
  /\ Len(netLog) = 4 /\ netLog[1].tok = 1
  /\ netLog[4].op = "transfer" /\ netLog[4].ev = "ok"
  /\ session = NoSession

(***************************************************************************)
(* Properties of getPreviewUrl (specification SpecUrl)                     *)
(***************************************************************************)
HasParam(u, name) == \E i \in 1..Len(u.params) : u.params[i].name = name
PreviewWithAuth ==
  urlFn = "getPreviewUrl" /\ urlAuth /\ urlName # 0 /\ urlOut # NoUrl

\* C14 (as claimed): getPreviewUrl(file, true) raises MissingCredentials
\* when there is no session, and for every session (a token with or without
\* a sessionId) returns an address with a token and a sessionId parameter.
C14_PreviewUrlForAnySession ==
  PreviewWithAuth =>
    /\ session.token = 0 => urlOut = UrlError("MissingCredentials")
    /\ session.token # 0
         => /\ urlOut.kind = "url"
            /\ HasParam(urlOut, "token") /\ HasParam(urlOut, "sessionId")

\* C14 (amended): getPreviewUrl(file, true) raises MissingCredentials when
\* there is no session or the session has no sessionId; for a session with
\* a token and a sessionId it returns the view address with exactly a token
\* and a sessionId parameter, those of the session.
C14_PreviewUrlNeedsBoth ==
  PreviewWithAuth =>
    /\ (session.token = 0 \/ session.sessionId = 0)
         => urlOut = UrlError("MissingCredentials")
    /\ (session.token # 0 /\ session.sessionId # 0)
         => /\ urlOut.kind = "url" /\ urlOut.endpoint = "view"
            /\ urlOut.filename = urlName
            /\ Len(urlOut.params) = 2
            /\ urlOut.params[1].name = "token"
            /\ urlOut.params[1].raw = session.token
            /\ urlOut.params[2].name = "sessionId"
            /\ urlOut.params[2].raw = session.sessionId
C14_Witness ==
  /\ PreviewWithAuth /\ urlName = 1
  /\ session.token = 1 /\ session.sessionId = 0
  /\ urlOut.kind = "raised" /\ urlOut.error = "MissingCredentials"

(***************************************************************************)
(* Errors surfaced by the dispatcher (specification Spec)                  *)
(***************************************************************************)
\* C13: a request that failed on anything but a cancellation has settled
\* with one normalised error: when the last attempt got no response its
\* status is 0, it is marked isNetworkError and its code is the transport
\* code, or NETWORK_ERROR when there is none; when the last attempt got a
\* response its status is the response status and it is not a network
\* error; and it carries the authentication-expired message exactly when
\* its status is 401.
C13_OneNormalizedError ==
  \A r \in Reqs :
    (pc[r] = "failed" /\ ~lastError[r].cancel) =>
      /\ result[r].kind = "error"
      /\ lastError[r].status = 0
           => /\ result[r].status = 0
              /\ result[r].isNetworkError
              /\ result[r].code = IF lastError[r].code = ""
                                    THEN "NETWORK_ERROR"
                                    ELSE lastError[r].code
      /\ lastError[r].status # 0
           => /\ result[r].status = lastError[r].status
              /\ ~result[r].isNetworkError
      /\ result[r].message = "authentication required or expired"
           <=> result[r].status = 401
C13_Witness ==
  /\ pc[1] = "failed" /\ lastError[1] = ErrNoResponse("")
  /\ retryCount[1] = 3 /\ attempts[1] = 4
  /\ result[1].status = 0 /\ result[1].isNetworkError
  /\ result[1].code = "NETWORK_ERROR"
(***************************************************************************)
(* Retry budget, dispatch order and headers across re-dispatches           *)
(* (specifications Spec and SpecReplay)                                    *)
(***************************************************************************)
\* C15: retryCount of every request is between 0 and maxRetries in every
\* state and no step decreases it, a session-refresh replay and a manual
\* error.retry() included.
C15_RetryCountBoundedMonotone ==
  [][\A r \in Reqs :
       /\ retryCount[r] \in 0..3 /\ retryCount'[r] \in 0..3
       /\ retryCount'[r] >= retryCount[r]
    ]_vars
C15_Witness ==
  /\ pc[1] = "inflight" /\ origin[1] = "manual" /\ replays[1] = 1
  /\ retryCount[1] = 3 /\ refreshCalls[1] = 1

\* C16: an attempt of a request is dispatched only while none is pending:
\* the first by the call, a retry only from the backoff wait that followed
\* a retryable failure, when its timer has fired, a session-refresh replay
\* only from the wait for refreshToken that followed a 401, when it has
\* returned true; and an attempt that settles is never followed at once by
\* a dispatch.
C16_OneAttemptInFlight ==
  [][\A r \in Reqs :
       /\ (pc'[r] = "reqint" /\ pc[r] # "reqint")
            => /\ pc[r] \in {"idle", "delay", "refresh"}
               /\ pc[r] = "idle" => origin'[r] = "call"
               /\ pc[r] = "delay"
                    => /\ origin'[r] = "retry"
                       /\ isRetryableError(lastError[r])
                       /\ delayMs[r] > 0 /\ delayMs'[r] = 0
               /\ pc[r] = "refresh"
                    => /\ origin'[r] = "refresh"
                       /\ lastError[r].status = 401
                       /\ refreshed'[r] = "true"
       /\ (pc[r] = "inflight" /\ pc'[r] # "inflight")
            => pc'[r] \in {"success", "failed", "delay", "refresh"}
       /\ attempts'[r] # attempts[r]
            => pc'[r] = "reqint" /\ pc[r] # "reqint"
    ]_vars
C16_Witness ==
  /\ pc[1] = "inflight" /\ origin[1] = "refresh" /\ refreshed[1] = "true"
  /\ retryCount[1] = 2 /\ autoRetries[1] = 2 /\ attempts[1] = 4
  /\ refreshCalls[1] = 1

\* C17: error.retry() dispatches exactly one attempt with the retryCount
\* the request already had; a retryable failure met with retryCount =
\* maxRetries is surfaced without a retry, after a replay as before it; and
\* the retry branch dispatches at most maxRetries attempts of a request over
\* its call, its session-refresh replays and its manual replays.
C17_RetryBudgetPerRequest ==
  [][\A r \in Reqs :
       /\ autoRetries[r] <= 3 /\ autoRetries'[r] <= 3
       /\ (pc[r] = "failed" /\ pc'[r] # "failed")
            => /\ pc'[r] = "reqint" /\ origin'[r] = "manual"
               /\ retryCount'[r] = retryCount[r]
               /\ autoRetries'[r] = autoRetries[r]
               /\ attempts[r] < MaxAttempts => attempts'[r] = attempts[r] + 1
       /\ (pc[r] = "inflight" /\ pc'[r] \notin {"inflight", "success"}
             /\ retryCount[r] = 3 /\ ~lastError'[r].cancel
             /\ isRetryableError(lastError'[r]))
            => /\ pc'[r] = "failed" /\ result'[r].kind = "error"
               /\ attempts'[r] = attempts[r]
               /\ autoRetries'[r] = autoRetries[r]
    ]_vars
C17_Witness ==
  /\ pc[1] = "failed" /\ origin[1] = "manual" /\ replays[1] = 1
  /\ lastError[1].status = 503 /\ result[1].status = 503
  /\ retryCount[1] = 3 /\ autoRetries[1] = 3 /\ attempts[1] = 5
  /\ refreshCalls[1] = 0

Redispatched(r) ==
  pc[r] = "reqint" /\ pc'[r] = "inflight" /\ origin[r] # "call"

\* C18 (as claimed): a re-dispatched attempt (retry, session-refresh replay
\* or manual replay) put on the wire while there is no session token
\* carries the x-auth-token and x-session-id of the previous attempt; while
\* there is a session token without sessionId it carries that token and
\* the x-session-id of the previous attempt; and every attempt put on the
\* wire while there is a session token carries that token.
C18_HeadersOfPreviousAttempt ==
  [][\A r \in Reqs :
       /\ (Redispatched(r) /\ session.token = 0) => sent'[r] = sent[r]
       /\ (Redispatched(r) /\ session.token # 0 /\ session.sessionId = 0)
            => sent'[r].tok = session.token /\ sent'[r].sid = sent[r].sid
       /\ (pc[r] = "reqint" /\ pc'[r] = "inflight" /\ session.token # 0)
            => sent'[r].tok = session.token
    ]_vars

\* C18 (amended): as claimed, except that a session-refresh replay put on
\* the wire while there is no session token carries the refreshed token the
\* 401 branch wrote into the headers (with the x-session-id of the previous
\* attempt) instead of the previous attempt's token.
C18_HeadersOnlyOverwritten ==
  [][\A r \in Reqs :
       /\ (Redispatched(r) /\ session.token = 0)
            => /\ sent'[r].sid = sent[r].sid
               /\ sent'[r].tok = IF origin[r] = "refresh" THEN hdr[r].tok
                                                           ELSE sent[r].tok
               /\ sent'[r].tok # 0 \/ sent[r].tok = 0
       /\ (Redispatched(r) /\ session.token # 0 /\ session.sessionId = 0)
            => sent'[r].tok = session.token /\ sent'[r].sid = sent[r].sid
       /\ (pc[r] = "reqint" /\ pc'[r] = "inflight" /\ session.token # 0)
            => sent'[r].tok = session.token
    ]_vars
C18_Witness ==
  /\ pc[1] = "inflight" /\ origin[1] = "manual" /\ session = NoSession
  /\ sent[1] = [tok |-> 2, sid |-> 1] /\ attempts[1] = 2

(***************************************************************************)
(* Concurrent requests answered 401 (specification SpecConc)               *)
(***************************************************************************)
\* C19: every 401 a handler receives makes it invoke refreshToken, whatever
\* the other requests are doing (waiting for their own refreshToken
\* included); and a handler whose refreshToken raised invokes logout, which
\* clears the session, even when another request's refresh has succeeded
\* and its replay is in flight.
C19_RefreshNotCoalesced ==
  [][\A r \in Reqs :
       /\ (pc[r] = "inflight" /\ pc'[r] \notin {"inflight", "success"}
             /\ lastError'[r].status = 401)
            => /\ pc'[r] = "refresh"
               /\ refreshCalls[r] < MaxCount
                    => refreshCalls'[r] = refreshCalls[r] + 1
               /\ \A q \in Reqs \ {r} : refreshCalls'[q] = refreshCalls[q]
       /\ (pc[r] = "refresh" /\ pc'[r] # "refresh" /\ refreshed'[r] = "raise")
            => /\ logoutCalls'[r] = logoutCalls[r] + 1
               /\ session' = NoSession
               /\ pc'[r] = "failed"
    ]_vars
C19_Witness ==
  /\ pc[1] = "inflight" /\ origin[1] = "refresh" /\ refreshed[1] = "true"
  /\ pc[2] = "failed" /\ refreshed[2] = "raise" /\ logoutCalls[2] = 1
  /\ refreshCalls[1] = 1 /\ refreshCalls[2] = 1
  /\ sent[1].tok # 0 /\ session = NoSession
====
